---- MODULE Spec2Model ----
(***************************************************************************)
(* A model of lambda_vsa_data.py: the Lambda handler that reads two Google *)
(* worksheets (employee attributes, application classifications) and       *)
(* upserts them into two PostgreSQL tables.                                *)
(*                                                                         *)
(* pc is the handler's position (the stage it is in), step the position    *)
(* inside the function that stage calls.  Library calls (boto3, pygsheets, *)
(* psycopg2) either return or raise; which of the two is chosen            *)
(* nondeterministically.  The database is modelled by the committed        *)
(* contents of the two tables and the uncommitted working copy of the      *)
(* open transaction.                                                       *)
(***************************************************************************)
EXTENDS Integers, Sequences, FiniteSets, TLC

VARIABLES
    pc,                \* lambda_handler: the stage being executed
    step,              \* position inside the function called by the stage
    result,            \* what lambda_handler returned (NoResult before it returns)
    raised,            \* the stage whose call raised ("none": no exception)
    began,             \* stages whose call has begun (history)
    completed,         \* stages whose call has returned normally (history)
    data_emp,          \* lambda_handler: data_emp
    data_apps,         \* lambda_handler: data_apps
    data,              \* read_google_sheet_data: data
    files,             \* credential files that exist under /tmp
    temp_file_path,    \* read_google_sheet_data: temp_file_path
    sheets_token_path, \* read_google_sheet_data: sheets_token_path
    table,             \* committed rows of the two destination tables
    prior,             \* table as it was when the running upsert was called (history)
    txn,               \* rows as seen inside the open transaction
    conn,              \* import_*_data_to_postgres: conn ("none", "open", "closed")
    cursor,            \* import_*_data_to_postgres: cursor
    values,            \* the batch handed to extras.execute_values
    prepared,          \* building the batch: "pending", "done" or "failed" (history)
    page               \* pages of the batch already executed by execute_values

vars == <<pc, step, result, raised, began, completed, data_emp, data_apps, data,
          files, temp_file_path, sheets_token_path, table, prior, txn, conn,
          cursor, values, prepared, page>>

-----------------------------------------------------------------------------
(* Bounds of the model *)

\* data rows (after the header) of a sheet handed to an import function
MaxRows == 3
\* data rows (after the header) of a sheet read inside a whole invocation
MaxSheetRows == 2
\* rows per statement of extras.execute_values (psycopg2's default page_size
\* is 100; the model scales it down so that a batch spans several pages)
PageSize == 2

Keys == {"a", "b"}
Vals == {"x", "y"}

-----------------------------------------------------------------------------
(* Schemas *)

columns_emp == <<"name", "email", "vsa_uspr_access", "vsa_pe_access",
                 "vsa_noc_access", "vsa_dci_access", "vsa_sc_access">>

columns_app == <<"name", "owner", "vsa_type", "vsa_uspr", "vsa_pe", "vsa_noc",
                 "vsa_dci", "vsa_sc">>

unique_columns_emp == <<"email">>

unique_columns_apps == <<"name">>

Datasets == {"emp", "app"}

Columns(ds) == IF ds = "emp" THEN columns_emp ELSE columns_app

UniqueColumns(ds) == IF ds = "emp" THEN unique_columns_emp ELSE unique_columns_apps

Range(s) == {s[i] : i \in 1..Len(s)}

\* columns.index(col)
ColumnIndex(columns, col) == CHOOSE i \in 1..Len(columns) : columns[i] = col

\* row[columns.index(col)] raises IndexError when the row is too short
HasKey(row, columns, unique_columns) ==
    \A j \in 1..Len(unique_columns) :
        ColumnIndex(columns, unique_columns[j]) <= Len(row)

\* tuple(row[columns.index(col)] for col in unique_columns)
UniqueKey(row, columns, unique_columns) ==
    [j \in 1..Len(unique_columns) |-> row[ColumnIndex(columns, unique_columns[j])]]

KeyOf(row, ds) == UniqueKey(row, Columns(ds), UniqueColumns(ds))

-----------------------------------------------------------------------------
(* Inputs: the rows a worksheet may hold *)

\* a row with every schema column filled: k in the key column, v elsewhere
FullRow(ds, k, v) ==
    [i \in 1..Len(Columns(ds)) |->
        IF Columns(ds)[i] \in Range(UniqueColumns(ds)) THEN k ELSE v]

FullRows(ds) == {FullRow(ds, k, v) : k \in Keys, v \in Vals}

\* get_all_values(include_tailing_empty=False) drops a row's trailing empty
\* cells: an empty row comes back as [], a row filled only in column 1 as [k]
SheetRows(ds) ==
    FullRows(ds) \cup {<<>>} \cup (IF ds = "app" THEN {<<"a">>} ELSE {})

SeqsUpTo(S, n) == UNION {[1..m -> S] : m \in 0..n}

\* a worksheet: nothing at all, or the header row followed by data rows
Sheets(ds, n) == {<<>>} \cup {<<Columns(ds)>> \o s : s \in SeqsUpTo(SheetRows(ds), n)}

\* a destination table: rows of the schema, the unique key unique among them
Tables(ds) ==
    {T \in SUBSET FullRows(ds) :
        \A r1, r2 \in T : KeyOf(r1, ds) = KeyOf(r2, ds) => r1 = r2}

-----------------------------------------------------------------------------
(* import_*_data_to_postgres: building the batch *)

\* data[1:]
SkipHeader(data_) == IF data_ = <<>> THEN <<>> ELSE Tail(data_)

IndexError == [ok |-> FALSE, rows |-> <<>>]

Batch(rows) == [ok |-> TRUE, rows |-> rows]

\* the same loop keeping the last row of a key instead of the first
RECURSIVE DedupLoopLastWins(_, _, _, _, _, _)
DedupLoopLastWins(vals, i, seen, unique_values, columns, unique_columns) ==
    IF i > Len(vals) THEN Batch(unique_values)
    ELSE IF ~HasKey(vals[i], columns, unique_columns) THEN IndexError
    ELSE LET unique_key == UniqueKey(vals[i], columns, unique_columns)
             kept == SelectSeq(unique_values,
                         LAMBDA r : UniqueKey(r, columns, unique_columns) # unique_key)
         IN  DedupLoopLastWins(vals, i + 1, seen \cup {unique_key},
                               Append(kept, vals[i]), columns, unique_columns)

\* the loop "for row in values" of import_app_data_to_postgres, from row i on
RECURSIVE DedupLoop(_, _, _, _, _, _)
DedupLoop(vals, i, seen, unique_values, columns, unique_columns) ==
    IF i > Len(vals) THEN Batch(unique_values)
    ELSE IF ~HasKey(vals[i], columns, unique_columns) THEN IndexError
    ELSE LET unique_key == UniqueKey(vals[i], columns, unique_columns) IN
         IF unique_key \notin seen
         THEN DedupLoop(vals, i + 1, seen \cup {unique_key},
                        Append(unique_values, vals[i]), columns, unique_columns)
         ELSE DedupLoop(vals, i + 1, seen, unique_values, columns, unique_columns)

\* import_emp_data_to_postgres: values (no key is computed, nothing is dropped)
EmpValues(data_) == Batch(SkipHeader(data_))

\* import_app_data_to_postgres: unique_values
AppUniqueValues(data_, unique_columns) ==
    DedupLoop(SkipHeader(data_), 1, {}, <<>>, columns_app, unique_columns)

\* the batch an import function builds from its data argument
Prepare(ds, data_) ==
    IF ds = "emp" THEN EmpValues(data_)
    ELSE AppUniqueValues(data_, unique_columns_apps)

-----------------------------------------------------------------------------
(* The upsert statement:                                                   *)
(*   INSERT INTO t (columns) VALUES ... ON CONFLICT (unique_columns)       *)
(*   DO UPDATE SET col = EXCLUDED.col  for every col not in unique_columns *)

SqlError == [ok |-> FALSE, rows |-> {}]

SqlOk(T) == [ok |-> TRUE, rows |-> T]

\* update_clause: col = EXCLUDED.col for col in columns if col not in unique_columns
UpdateClause(old, new, columns, unique_columns) ==
    [i \in 1..Len(columns) |->
        IF columns[i] \in Range(unique_columns) THEN old[i] ELSE new[i]]

\* a load that replaces the table's contents instead of merging into them
UpsertRowMirror(T, r, columns, unique_columns) == {r}

\* one row of the statement against the rows T: insert, or update on conflict
UpsertRow(T, r, columns, unique_columns) ==
    LET hit == {t \in T : UniqueKey(t, columns, unique_columns)
                            = UniqueKey(r, columns, unique_columns)}
    IN  (T \ hit) \cup
        (IF hit = {} THEN {r}
         ELSE {UpdateClause(t, r, columns, unique_columns) : t \in hit})

\* an INSERT without the ON CONFLICT clause: a key already present is a
\* unique violation
ConflictNoClause(T, r, touched, columns, unique_columns) ==
    \/ UniqueKey(r, columns, unique_columns) \in touched
    \/ \E t \in T : UniqueKey(t, columns, unique_columns)
                      = UniqueKey(r, columns, unique_columns)

\* ON CONFLICT DO UPDATE refuses to affect a row a second time in one
\* statement; a conflict with a row of an earlier statement is an update
Conflict(T, r, touched, columns, unique_columns) ==
    UniqueKey(r, columns, unique_columns) \in touched

\* one statement over the rows of a page, from row i on; touched holds the
\* keys this statement has inserted or updated
RECURSIVE Statement(_, _, _, _, _, _)
Statement(T, rows, i, touched, columns, unique_columns) ==
    IF i > Len(rows) THEN SqlOk(T)
    ELSE IF Len(rows[i]) # Len(columns) THEN SqlError
    ELSE IF Conflict(T, rows[i], touched, columns, unique_columns) THEN SqlError
    ELSE Statement(UpsertRow(T, rows[i], columns, unique_columns), rows, i + 1,
                   touched \cup {UniqueKey(rows[i], columns, unique_columns)},
                   columns, unique_columns)

Min(a, b) == IF a < b THEN a ELSE b

\* extras.execute_values: the batch is sent page_size rows per statement
NumPages(rows) == (Len(rows) + PageSize - 1) \div PageSize

PageOf(rows, p) == SubSeq(rows, (p - 1) * PageSize + 1, Min(p * PageSize, Len(rows)))

\* the rows of the table once pages p.. of the batch have been executed
RECURSIVE ExecuteValues(_, _, _, _)
ExecuteValues(T, rows, p, ds) ==
    IF p > NumPages(rows) THEN SqlOk(T)
    ELSE LET res == Statement(T, PageOf(rows, p), 1, {}, Columns(ds), UniqueColumns(ds))
         IN  IF res.ok THEN ExecuteValues(res.rows, rows, p + 1, ds) ELSE SqlError

\* with autocommit on, every statement would be committed as it completes
CommittedByStatementAutocommit(committed, working) == working

\* psycopg2 connections start with autocommit off: a statement changes the
\* transaction's working copy and leaves the committed rows alone
CommittedByStatement(committed, working) == committed

-----------------------------------------------------------------------------
(* lambda_handler: the order of its calls *)

\* a handler that runs one dataset's pipeline after the other's
StageOrderPipelined == <<"secrets", "read_emp", "import_emp", "read_apps", "import_app">>

\* get_secrets (and db_config), both sheet reads, then both imports
StageOrder == <<"secrets", "read_emp", "read_apps", "import_emp", "import_app">>

Stages == Range(StageOrder)

ReadStages == {"read_emp", "read_apps"}

ImportStages == {"import_emp", "import_app"}

StageIndex(s) == CHOOSE i \in 1..Len(StageOrder) : StageOrder[i] = s

LastStage == StageOrder[Len(StageOrder)]

NextStage(s) == StageOrder[StageIndex(s) + 1]

\* the dataset a stage works on
DS(s) == IF s \in {"read_emp", "import_emp"} THEN "emp" ELSE "app"

FirstStep(s) ==
    IF s \in ReadStages THEN "create_temp"
    ELSE IF s \in ImportStages THEN "connect"
    ELSE "call"

\* the data argument of the import call of dataset ds
DataOf(ds) == IF ds = "emp" THEN data_emp ELSE data_apps

NoResult == [statusCode |-> 0, body |-> "none"]

\* return {'statusCode': 200, 'body': json.dumps({'message': 'Success'})}
ResultOnReturn == [statusCode |-> 200, body |-> "message"]

\* an except branch that reports success whatever was raised
ResultOnExceptSwallowed == ResultOnReturn

\* return {'statusCode': 500, 'body': json.dumps({'error': str(e)})}
ResultOnExcept == [statusCode |-> 500, body |-> "error"]

-----------------------------------------------------------------------------
(* read_google_sheet_data *)

\* NamedTemporaryFile gives each call a file name of its own
TempName(s) == IF s = "read_emp" THEN "tmp_emp" ELSE "tmp_apps"

TokenPath == "/tmp/sheets.googleapis.com-python.json"

InRead(s) == pc \in ReadStages /\ step = s

\* an exception inside the try block: control goes to the finally block
ReadRaise == raised' = pc /\ step' = "finally"

ReadUnchanged ==
    UNCHANGED <<pc, result, began, completed, data_emp, data_apps,
                table, prior, txn, conn, cursor, values, prepared, page>>

\* tempfile.NamedTemporaryFile(mode='w', suffix='.json', delete=False)
R_CreateTemp ==
    /\ InRead("create_temp")
    /\ \/ /\ files' = files \cup {TempName(pc)}
          /\ step' = "dump_client"
          /\ UNCHANGED raised
       \/ ReadRaise /\ UNCHANGED files
    /\ UNCHANGED <<data, temp_file_path, sheets_token_path>>
    /\ ReadUnchanged

\* json.dump(credentials, temp_file); temp_file_path = temp_file.name
R_DumpClient ==
    /\ InRead("dump_client")
    /\ \/ /\ temp_file_path' = TempName(pc)
          /\ step' = "open_token"
          /\ UNCHANGED raised
       \/ ReadRaise /\ UNCHANGED temp_file_path
    /\ UNCHANGED <<data, files, sheets_token_path>>
    /\ ReadUnchanged

\* sheets_token_path = '/tmp/...'; open(sheets_token_path, 'w')
R_OpenToken ==
    /\ InRead("open_token")
    /\ sheets_token_path' = TokenPath
    /\ \/ /\ files' = files \cup {TokenPath}
          /\ step' = "dump_token"
          /\ UNCHANGED raised
       \/ ReadRaise /\ UNCHANGED files
    /\ UNCHANGED <<data, temp_file_path>>
    /\ ReadUnchanged

\* json.dump(gapi_sheets_token, sheets_token_file)
R_DumpToken ==
    /\ InRead("dump_token")
    /\ \/ step' = "authorize" /\ UNCHANGED raised
       \/ ReadRaise
    /\ UNCHANGED <<data, files, temp_file_path, sheets_token_path>>
    /\ ReadUnchanged

\* pygsheets.authorize, gc.open_by_url, sh.worksheets / worksheet_by_title
R_Remote ==
    /\ pc \in ReadStages
    /\ step \in {"authorize", "open_sheet", "worksheet"}
    /\ \/ /\ step' = CASE step = "authorize" -> "open_sheet"
                       [] step = "open_sheet" -> "worksheet"
                       [] step = "worksheet" -> "get_values"
          /\ UNCHANGED raised
       \/ ReadRaise
    /\ UNCHANGED <<data, files, temp_file_path, sheets_token_path>>
    /\ ReadUnchanged

\* data = wks.get_all_values(include_tailing_empty=False); return data
R_GetValues ==
    /\ InRead("get_values")
    /\ \/ /\ \E d \in Sheets(DS(pc), MaxSheetRows) : data' = d
          /\ step' = "finally"
          /\ UNCHANGED raised
       \/ ReadRaise /\ UNCHANGED data
    /\ UNCHANGED <<files, temp_file_path, sheets_token_path>>
    /\ ReadUnchanged

\* the paths the finally block removes: those whose variable is set
Removed(temp_path, token_path) ==
    (IF temp_path # "None" THEN {temp_path} ELSE {})
        \cup (IF token_path # "None" THEN {token_path} ELSE {})

\* the finally block, then the return or the re-raise
R_Finally ==
    /\ InRead("finally")
    /\ files' = files \ Removed(temp_file_path, sheets_token_path)
    /\ step' = IF raised = "none" THEN "returned" ELSE "raised"
    /\ UNCHANGED <<raised, data, temp_file_path, sheets_token_path>>
    /\ ReadUnchanged

-----------------------------------------------------------------------------
(* import_emp_data_to_postgres, import_app_data_to_postgres *)

InImport(s) == pc \in ImportStages /\ step = s

\* an exception: neither function has a try block, it leaves the function
ImportRaise == raised' = pc /\ step' = "raised"

ImportUnchanged ==
    UNCHANGED <<pc, result, began, completed, data_emp, data_apps, data,
                files, temp_file_path, sheets_token_path, prior>>

\* conn = psycopg2.connect(...); cursor = conn.cursor()
I_Connect ==
    /\ InImport("connect")
    /\ \/ /\ conn' = "open"
          /\ cursor' = "open"
          /\ txn' = table[DS(pc)]
          /\ step' = "prepare"
          /\ UNCHANGED raised
       \/ ImportRaise /\ UNCHANGED <<conn, cursor, txn>>
    /\ UNCHANGED <<table, values, prepared, page>>
    /\ ImportUnchanged

\* the query text and the batch: values, and unique_values for applications
I_Prepare ==
    /\ InImport("prepare")
    /\ LET batch == Prepare(DS(pc), DataOf(DS(pc))) IN
       IF batch.ok
       THEN /\ values' = batch.rows
            /\ prepared' = "done"
            /\ step' = "execute"
            /\ UNCHANGED raised
       ELSE ImportRaise /\ prepared' = "failed" /\ UNCHANGED values
    /\ UNCHANGED <<table, txn, conn, cursor, page>>
    /\ ImportUnchanged

\* extras.execute_values: the next page's statement
I_ExecutePage ==
    /\ InImport("execute")
    /\ page < NumPages(values)
    /\ \/ \* the server or the network fails the statement (timeout, lost connection)
          ImportRaise /\ UNCHANGED <<table, txn, page>>
       \/ LET ds == DS(pc)
              res == Statement(txn, PageOf(values, page + 1), 1, {},
                               Columns(ds), UniqueColumns(ds))
          IN  IF res.ok
              THEN /\ txn' = res.rows
                   /\ table' = [table EXCEPT
                                   ![ds] = CommittedByStatement(table[ds], res.rows)]
                   /\ page' = page + 1
                   /\ UNCHANGED <<raised, step>>
              ELSE ImportRaise /\ UNCHANGED <<table, txn, page>>
    /\ UNCHANGED <<conn, cursor, values, prepared>>
    /\ ImportUnchanged

\* conn.commit()
I_Commit ==
    /\ InImport("execute")
    /\ page = NumPages(values)
    /\ \/ /\ table' = [table EXCEPT ![DS(pc)] = txn]
          /\ step' = "close"
          /\ UNCHANGED raised
       \/ ImportRaise /\ UNCHANGED table
    /\ UNCHANGED <<txn, conn, cursor, values, prepared, page>>
    /\ ImportUnchanged

\* cursor.close(); conn.close()
I_Close ==
    /\ InImport("close")
    /\ cursor' = "closed"
    /\ conn' = "closed"
    /\ step' = "returned"
    /\ UNCHANGED <<raised, table, txn, values, prepared, page>>
    /\ ImportUnchanged

-----------------------------------------------------------------------------
(* lambda_handler *)

\* get_secrets three times, json.loads of the Google secret, db_config
H_GetSecrets ==
    /\ pc = "secrets"
    /\ step = "call"
    /\ \/ step' = "returned" /\ UNCHANGED raised
       \/ step' = "raised" /\ raised' = pc
    /\ UNCHANGED <<pc, result, began, completed, data_emp, data_apps, data, files,
                   temp_file_path, sheets_token_path, table, prior, txn, conn,
                   cursor, values, prepared, page>>

\* a call has returned: the handler keeps its result and makes the next call
H_Advance ==
    /\ pc \in Stages
    /\ pc # LastStage
    /\ step = "returned"
    /\ completed' = completed \cup {pc}
    /\ pc' = NextStage(pc)
    /\ began' = began \cup {pc'}
    /\ step' = FirstStep(pc')
    /\ data_emp' = IF pc = "read_emp" THEN data ELSE data_emp
    /\ data_apps' = IF pc = "read_apps" THEN data ELSE data_apps
    /\ data' = <<>>
    /\ temp_file_path' = "None"
    /\ sheets_token_path' = "None"
    /\ prior' = table
    /\ txn' = {}
    /\ conn' = "none"
    /\ cursor' = "none"
    /\ values' = <<>>
    /\ prepared' = "pending"
    /\ page' = 0
    /\ UNCHANGED <<result, raised, files, table>>

\* the last call has returned: the success result
H_Return ==
    /\ pc = LastStage
    /\ step = "returned"
    /\ completed' = completed \cup {pc}
    /\ pc' = "done"
    /\ result' = ResultOnReturn
    /\ UNCHANGED <<step, raised, began, data_emp, data_apps, data, files,
                   temp_file_path, sheets_token_path, table, prior, txn, conn,
                   cursor, values, prepared, page>>

\* except Exception as e: the failure result
H_Except ==
    /\ pc \in Stages
    /\ step = "raised"
    /\ pc' = "done"
    /\ result' = ResultOnExcept
    /\ UNCHANGED <<step, raised, began, completed, data_emp, data_apps, data,
                   files, temp_file_path, sheets_token_path, table, prior, txn,
                   conn, cursor, values, prepared, page>>

-----------------------------------------------------------------------------
(* Specifications *)

EmptyTables == [ds \in Datasets |-> {}]

\* one invocation of lambda_handler
Init ==
    /\ pc = StageOrder[1]
    /\ step = FirstStep(StageOrder[1])
    /\ result = NoResult
    /\ raised = "none"
    /\ began = {StageOrder[1]}
    /\ completed = {}
    /\ data_emp = <<>>
    /\ data_apps = <<>>
    /\ data = <<>>
    /\ files = {}
    /\ temp_file_path = "None"
    /\ sheets_token_path = "None"
    /\ table = EmptyTables
    /\ prior = EmptyTables
    /\ txn = {}
    /\ conn = "none"
    /\ cursor = "none"
    /\ values = <<>>
    /\ prepared = "pending"
    /\ page = 0

Next ==
    \/ H_GetSecrets
    \/ H_Advance
    \/ H_Return
    \/ H_Except
    \/ R_CreateTemp
    \/ R_DumpClient
    \/ R_OpenToken
    \/ R_DumpToken
    \/ R_Remote
    \/ R_GetValues
    \/ R_Finally
    \/ I_Connect
    \/ I_Prepare
    \/ I_ExecutePage
    \/ I_Commit
    \/ I_Close

Spec == Init /\ [][Next]_vars

\* every call the handler makes returns or raises
FairSpec == Spec /\ WF_vars(Next)

\* one call of an import function: any sheet of up to MaxRows data rows
\* against any contents of its destination table
InitImport ==
    /\ pc \in ImportStages
    /\ step = "connect"
    /\ result = NoResult
    /\ raised = "none"
    /\ began = {pc}
    /\ completed = {}
    /\ data_emp \in (IF pc = "import_emp" THEN Sheets("emp", MaxRows) ELSE {<<>>})
    /\ data_apps \in (IF pc = "import_app" THEN Sheets("app", MaxRows) ELSE {<<>>})
    /\ data = <<>>
    /\ files = {}
    /\ temp_file_path = "None"
    /\ sheets_token_path = "None"
    /\ table \in {[EmptyTables EXCEPT ![DS(pc)] = T] : T \in Tables(DS(pc))}
    /\ prior = table
    /\ txn = {}
    /\ conn = "none"
    /\ cursor = "none"
    /\ values = <<>>
    /\ prepared = "pending"
    /\ page = 0

NextImport ==
    \/ I_Connect
    \/ I_Prepare
    \/ I_ExecutePage
    \/ I_Commit
    \/ I_Close

SpecImport == InitImport /\ [][NextImport]_vars

-----------------------------------------------------------------------------
(* Properties *)

ds_ == DS(pc)

\* the rows after the first (header) row of a sheet
AfterHeader(sheet) == SubSeq(sheet, 2, Len(sheet))

KeyAt(rows, i) == KeyOf(rows[i], ds_)

AllHaveKey(rows) ==
    \A i \in 1..Len(rows) : HasKey(rows[i], Columns(ds_), UniqueColumns(ds_))

\* positions whose key no earlier position carries
FirstPositions(rows) ==
    {i \in 1..Len(rows) : \A j \in 1..(i - 1) : KeyAt(rows, j) # KeyAt(rows, i)}

RECURSIVE Pick(_, _, _)
Pick(rows, I, i) ==
    IF i > Len(rows) THEN <<>>
    ELSE (IF i \in I THEN <<rows[i]>> ELSE <<>>) \o Pick(rows, I, i + 1)

\* rows with every row whose key an earlier row carries removed, order kept
FirstOccurrences(rows) == Pick(rows, FirstPositions(rows), 1)

\* keys of the batch (of its rows long enough to have one)
BatchKeys ==
    {KeyAt(values, i) : i \in {j \in 1..Len(values) :
        HasKey(values[j], Columns(ds_), UniqueColumns(ds_))}}

UpsertOf(T) == ExecuteValues(T, values, 1, ds_)

\* C1 (as claimed): the batch handed to the destination write never holds
\* two records with the same unique-key value, for either dataset.
C1_BatchKeysDistinct ==
    (pc \in ImportStages /\ prepared = "done") =>
        \A i, j \in 1..Len(values) :
            (/\ i < j
             /\ HasKey(values[i], Columns(ds_), UniqueColumns(ds_))
             /\ HasKey(values[j], Columns(ds_), UniqueColumns(ds_)))
            => KeyAt(values, i) # KeyAt(values, j)

\* C2 (as claimed): for every sheet, the normalization of
\* import_app_data_to_postgres yields the rows after the header with every
\* row whose key an earlier row carries removed, in the original order.
C2_NormalizeAlwaysYieldsFirstWins ==
    (pc = "import_app" /\ prepared # "pending") =>
        /\ prepared = "done"
        /\ values = FirstOccurrences(AfterHeader(data_apps))

\* C2 (amended): when every data row has a cell in the key column the
\* normalization yields the rows after the header, first occurrence of each
\* key only, order kept; when some data row has none, the call raises and
\* no batch is handed to the write.
C2_NormalizeFirstWinsOrRaises ==
    (pc = "import_app" /\ prepared # "pending") =>
        IF AllHaveKey(AfterHeader(data_apps))
        THEN /\ prepared = "done"
             /\ values = FirstOccurrences(AfterHeader(data_apps))
        ELSE /\ prepared = "failed"
             /\ step = "raised"
             /\ values = <<>>
             /\ table = prior

\* C2 witness: a batch built from a sheet in which a later row repeats an
\* earlier row's key with other values, and a row of another key follows.
C2_Witness ==
    /\ pc = "import_app"
    /\ prepared = "done"
    /\ Len(values) = 2
    /\ Len(data_apps) = 4
    /\ data_apps[2][1] = data_apps[3][1]
    /\ data_apps[2] # data_apps[3]

\* C3 (as claimed): after a successful upsert the destination table holds,
\* for every record of the batch, a row equal to that record.
C3_TableHoldsEveryRecord ==
    (pc \in ImportStages /\ step = "returned") =>
        \A i \in 1..Len(values) : values[i] \in table[ds_]

\* C4: a second upsert of the same batch, applied to the table the first
\* one left, succeeds and leaves that table as it is.
C4_UpsertIdempotent ==
    (pc \in ImportStages /\ step = "returned") =>
        LET once == UpsertOf(prior[ds_]) IN
        /\ once.ok
        /\ table[ds_] = once.rows
        /\ UpsertOf(once.rows) = once

\* C4 witness: an upsert has returned after overwriting a row that was there.
C4_Witness ==
    /\ pc \in ImportStages
    /\ step = "returned"
    /\ \E r \in prior[ds_] : r \notin table[ds_]
    /\ Cardinality(table[ds_]) > Cardinality(prior[ds_])

\* C5: an upsert that fails raises to its caller with the table as it was
\* when it was called; the table differs from that only once the commit has
\* succeeded, and then it holds the whole batch's effect.
C5_BatchAtomic ==
    pc \in ImportStages =>
        /\ step = "raised" => (raised = pc /\ table = prior)
        /\ raised # "none" => step = "raised"
        /\ table # prior =>
            /\ step \in {"close", "returned"}
            /\ table = [prior EXCEPT ![ds_] = UpsertOf(prior[ds_]).rows]

\* C5 witness: the second statement of a batch raised after the first had
\* changed rows inside the transaction.
C5_Witness ==
    /\ pc \in ImportStages
    /\ step = "raised"
    /\ page = 1
    /\ txn # prior[ds_]

\* C6: every row the table held when the upsert was called still has a row
\* of its key, and is unchanged unless the batch carries its key; the other
\* table is untouched.
C6_RowsOutsideBatchKept ==
    pc \in ImportStages =>
        /\ \A r \in prior[ds_] :
              /\ \E t \in table[ds_] : KeyOf(t, ds_) = KeyOf(r, ds_)
              /\ KeyOf(r, ds_) \notin BatchKeys => r \in table[ds_]
        /\ \A other \in Datasets \ {ds_} : table[other] = prior[other]

\* C6 witness: an upsert has changed the table and a row whose key the
\* batch does not carry is still there.
C6_Witness ==
    /\ pc \in ImportStages
    /\ step = "returned"
    /\ table # prior
    /\ \E r \in prior[ds_] : KeyOf(r, ds_) \notin BatchKeys /\ r \in table[ds_]

\* C7 (as claimed): no upsert call returns or raises with its connection or
\* its cursor still open.
C7_ConnectionReleased ==
    (pc \in ImportStages /\ step \in {"returned", "raised"}) =>
        (conn # "open" /\ cursor # "open")

\* C8 (as claimed): when read_google_sheet_data returns or raises, no
\* credential file it wrote is left on disk.
C8_NoCredentialFileLeft ==
    (pc \in ReadStages /\ step \in {"returned", "raised"}) => files = {}

\* C9 (as claimed): every stage of the employee pipeline has completed
\* before any stage of the application pipeline begins.
C9_EmployeePipelineFirst ==
    (began \cap {"read_apps", "import_app"} # {}) =>
        {"read_emp", "import_emp"} \subseteq completed

\* C9 (amended): the calls are sequential in the order employee read,
\* application read, employee write, application write: each has completed
\* before the next begins.
C9_StagesSequential ==
    /\ "read_emp" \in began => "secrets" \in completed
    /\ "read_apps" \in began => "read_emp" \in completed
    /\ "import_emp" \in began => {"read_emp", "read_apps"} \subseteq completed
    /\ "import_app" \in began =>
           {"read_emp", "read_apps", "import_emp"} \subseteq completed
    /\ \A s \in Stages \ began : s \notin completed

\* C9 witness: the application write has begun.
C9_Witness ==
    /\ pc = "import_app"
    /\ step = "execute"
    /\ table["emp"] # {}

Done == pc = "done"

ResultShape ==
    /\ Done => result \in {ResultOnReturn, ResultOnExcept}
    /\ Done => (result = ResultOnExcept <=> raised # "none")
    /\ Done => (result = ResultOnReturn <=> completed = Stages)
    /\ ~Done => result = NoResult

\* C10: every invocation ends, and ends with the failure result if some
\* call raised and with the success result otherwise.
C10_TwoResults == <>Done /\ []ResultShape

\* C10 witness: the invocation has ended in failure because the last call,
\* the application upsert, raised.
C10_Witness ==
    /\ Done
    /\ result = ResultOnExcept
    /\ raised = "import_app"

====
